---- MODULE Spec2Model ----
(***************************************************************************)
(* A model of the General Problem Solver of paip-rust (src/gps): the       *)
(* state/value model (state.rs), the conditions (condition.rs), the        *)
(* operations with their effect application and interference analysis      *)
(* (operation.rs) and the recursive backtracking search (mod.rs).          *)
(*                                                                         *)
(* The recursion solve_all -> solve_one -> apply_operation -> solve_all is *)
(* modelled by an explicit call stack `frames`; goal_stack and             *)
(* protected_goals are the two mutable references threaded through it.     *)
(***************************************************************************)
EXTENDS Integers, Sequences, FiniteSets, TLC

VARIABLES
    operations,       \* GeneralProblemSolver.operations (registration order)
    goals,            \* GeneralProblemSolver.goals
    states,           \* GeneralProblemSolver.states (the initial state set)
    goal_stack,       \* solve's local goal_stack
    protected_goals,  \* solve's local protected_goals (a ConditionSet)
    frames,           \* the call stack of solve_all/solve_one/apply_operation
    ret,              \* the value returned by the call that returned last
    phase,            \* "idle" before solve is called, "running", "done"
    achieved,         \* history: the goals the top-level solve_all recorded
    cut,              \* history: the cycle guard of solve_one has fired
    unit,             \* a direct call of one function: its input and output
    previous          \* history: what the earlier calls of solve returned

vars == <<operations, goals, states, goal_stack, protected_goals, frames,
          ret, phase, achieved, cut, unit, previous>>

solver_vars == <<operations, goals, states, goal_stack, protected_goals,
                 frames, ret, phase, achieved, cut, previous>>

-----------------------------------------------------------------------------
(* Bounds of the model. *)

\* The longest operation list drawn from OperationPool.
MaxOps == 2

\* The longest goal list drawn from GoalPool.
MaxGoals == 2

\* The deepest call stack the model follows; the search never gets there.
MaxFrames == 24

\* The largest integer value of the state sets the functions are called on.
MaxInt == 2

\* The number of calls of solve made on one solver.
MaxSolves == 2

\* The longest sequence of operations looked for when solve has failed.
MaxPlan == 3

-----------------------------------------------------------------------------
(* state.rs: StateData, State, StateSet *)

Symbol == [tag |-> "Symbol", x |-> 0]

Integer(n) == [tag |-> "Integer", x |-> n]

new_symbol(name) == [name |-> name, data |-> Symbol]

new_integer(name, n) == [name |-> name, data |-> Integer(n)]

\* A variant of eq that compares the variants only.
eq_by_variant(a, b) == a.tag = b.tag

\* impl PartialEq for StateData
eq(a, b) ==
    IF a.tag = "Symbol"
    THEN b.tag = "Symbol"
    ELSE IF b.tag = "Integer" THEN a.x = b.x ELSE FALSE

\* A variant of partial_cmp that orders the variants as a derived PartialOrd
\* does: every Symbol below every Integer.
partial_cmp_derived(a, b) ==
    IF a.tag = b.tag
    THEN IF a.x < b.x THEN "Less" ELSE IF a.x = b.x THEN "Equal" ELSE "Greater"
    ELSE IF a.tag = "Symbol" THEN "Less" ELSE "Greater"

\* impl PartialOrd for StateData: "None" when the variants differ
partial_cmp(a, b) ==
    IF a.tag = "Symbol"
    THEN IF b.tag = "Symbol" THEN "Equal" ELSE "None"
    ELSE IF b.tag = "Integer"
         THEN IF a.x < b.x THEN "Less" ELSE IF a.x = b.x THEN "Equal" ELSE "Greater"
         ELSE "None"

\* The provided methods of PartialEq / PartialOrd that Compare::check_data calls.
ne(a, b) == ~eq(a, b)
gt(a, b) == partial_cmp(a, b) = "Greater"
ge(a, b) == partial_cmp(a, b) \in {"Greater", "Equal"}
lt(a, b) == partial_cmp(a, b) = "Less"
le(a, b) == partial_cmp(a, b) \in {"Less", "Equal"}

\* StateSet::new
EmptyStateSet == [n \in {} |-> Symbol]

\* StateSet::insert: overwrites the value of a name already present
StateSetInsert(ss, st) ==
    [n \in (DOMAIN ss) \cup {st.name} |-> IF n = st.name THEN st.data ELSE ss[n]]

\* StateSet::remove
StateSetRemove(ss, name) == [n \in (DOMAIN ss) \ {name} |-> ss[n]]

\* StateSet::get(name).is_some()
StateSetHas(ss, name) == name \in DOMAIN ss

RECURSIVE StateSetOf(_)
\* A state set built by inserting the states of a list in order.
StateSetOf(sts) ==
    IF sts = <<>> THEN EmptyStateSet
    ELSE StateSetInsert(StateSetOf(SubSeq(sts, 1, Len(sts) - 1)), sts[Len(sts)])

-----------------------------------------------------------------------------
(* condition.rs: Contain, NotContain, Compare, ConditionSet *)

Contain(name) ==
    [kind |-> "Contain", name |-> name, state_name |-> name,
     operator |-> "Equal", value |-> Symbol]

NotContain(name) ==
    [kind |-> "NotContain", name |-> name, state_name |-> name,
     operator |-> "Equal", value |-> Symbol]

Compare(name, state_name, operator, value) ==
    [kind |-> "Compare", name |-> name, state_name |-> state_name,
     operator |-> operator, value |-> value]

CompareOperators ==
    {"Equal", "NotEqual", "Greater", "GreaterEqual", "Less", "LessEqual"}

\* Condition::name: the field `name` of all three kinds
name_of(c) == c.name

\* Condition::state_name: `name` for Contain and NotContain, `state_name` for Compare
state_name_of(c) == c.state_name

\* Condition::check_data of the three kinds
check_data(c, d) ==
    CASE c.kind = "Contain" -> TRUE
      [] c.kind = "NotContain" -> FALSE
      [] c.kind = "Compare" ->
            CASE c.operator = "Equal" -> eq(d, c.value)
              [] c.operator = "NotEqual" -> ne(d, c.value)
              [] c.operator = "Greater" -> gt(d, c.value)
              [] c.operator = "GreaterEqual" -> ge(d, c.value)
              [] c.operator = "Less" -> lt(d, c.value)
              [] c.operator = "LessEqual" -> le(d, c.value)

\* A variant of check without the override of NotContain.
check_default_only(c, ss) ==
    IF StateSetHas(ss, name_of(c)) THEN check_data(c, ss[name_of(c)]) ELSE FALSE

\* Condition::check: the default method looks the fact up under self.name();
\* NotContain overrides it.
check(c, ss) ==
    IF c.kind = "NotContain"
    THEN ~StateSetHas(ss, name_of(c))
    ELSE IF StateSetHas(ss, name_of(c)) THEN check_data(c, ss[name_of(c)]) ELSE FALSE

\* StateSet::has_reached
has_reached(ss, gs) == \A i \in 1..Len(gs) : check(gs[i], ss)

\* ConditionSet::new
EmptyConditionSet == [n \in {} |-> <<>>]

\* ConditionSet::insert
ConditionSetInsert(cs, name, c) ==
    [n \in (DOMAIN cs) \cup {name} |->
        IF n = name
        THEN IF name \in DOMAIN cs THEN Append(cs[name], c) ELSE <<c>>
        ELSE cs[n]]

\* ConditionSet::remove: retain(|c| c != condition) drops every equal condition
ConditionSetRemove(cs, name, c) ==
    IF name \in DOMAIN cs
    THEN [cs EXCEPT ![name] = SelectSeq(@, LAMBDA x : x # c)]
    ELSE cs

-----------------------------------------------------------------------------
(* operation.rs: Operation, Modification, apply, has_affect *)

\* OperationBuilder::new(name) ... build(): the four effect lists in the order
\* their insert_* calls were made
Operation(name, prerequisites, add_states, remove_states, modify_states) ==
    [name |-> name, prerequisites |-> prerequisites, add_states |-> add_states,
     remove_states |-> remove_states, modify_states |-> modify_states]

\* Modification::new(target_name, closure); the closure is named by `modification`
Modification(target_name, modification) ==
    [target_name |-> target_name, modification |-> modification]

\* The closures the callers of this repository build (mod.rs tests): a Symbol
\* becomes Integer(0), an Integer(x) becomes Integer(x + k). "add-1" is the
\* same closure with k = 1.
Delta(f) ==
    CASE f = "add-10" -> 10
      [] f = "add-50" -> 50
      [] f = "add-1" -> 1

\* (modification.modification)(&mut data): the value the closure leaves in
\* data. The values of the model stay far below the i32 range, where x + k
\* cannot overflow.
Modify(f, d) == IF d.tag = "Symbol" THEN Integer(0) ELSE Integer(d.x + Delta(f))

RECURSIVE ApplyAdds(_, _)
\* Operation::apply, first loop: insert every add state
ApplyAdds(adds, ss) ==
    IF adds = <<>> THEN ss
    ELSE ApplyAdds(Tail(adds), StateSetInsert(ss, Head(adds)))

RECURSIVE ApplyRemoves(_, _)
\* Operation::apply, second loop: remove every remove state
ApplyRemoves(removes, ss) ==
    IF removes = <<>> THEN ss
    ELSE ApplyRemoves(Tail(removes), StateSetRemove(ss, Head(removes)))

RECURSIVE ApplyModificationsCreating(_, _)
\* A variant of the third loop that gives an absent target a Symbol value
\* first, as entry(target).or_insert would.
ApplyModificationsCreating(mods, ss) ==
    IF mods = <<>> THEN ss
    ELSE ApplyModificationsCreating(Tail(mods),
            StateSetInsert(ss,
                [name |-> Head(mods).target_name,
                 data |-> Modify(Head(mods).modification,
                                 IF StateSetHas(ss, Head(mods).target_name)
                                 THEN ss[Head(mods).target_name] ELSE Symbol)]))

RECURSIVE ApplyModifications(_, _)
\* Operation::apply, third loop: get_mut(target).and_then(modification)
ApplyModifications(mods, ss) ==
    IF mods = <<>> THEN ss
    ELSE ApplyModifications(Tail(mods),
            IF StateSetHas(ss, Head(mods).target_name)
            THEN [ss EXCEPT ![Head(mods).target_name] = Modify(Head(mods).modification, @)]
            ELSE ss)

\* A variant of apply that runs the remove loop before the add loop.
apply_removes_first(op, ss) ==
    ApplyModifications(op.modify_states,
        ApplyAdds(op.add_states, ApplyRemoves(op.remove_states, ss)))

\* Operation::apply
apply(op, ss) ==
    ApplyModifications(op.modify_states,
        ApplyRemoves(op.remove_states, ApplyAdds(op.add_states, ss)))

\* A variant of the first loop that never flags an add state.
AddAffectsNever(op, prot) == FALSE

\* Operation::has_affect, first loop: an add state under a NotContain protection
AddAffects(op, prot) ==
    \E i \in 1..Len(op.add_states) :
        /\ op.add_states[i].name \in DOMAIN prot
        /\ \E j \in 1..Len(prot[op.add_states[i].name]) :
              LET cond == prot[op.add_states[i].name][j] IN
              /\ state_name_of(cond) = op.add_states[i].name
              /\ cond.kind = "NotContain"

\* A variant of the second loop that never flags a remove state.
RemoveAffectsNever(op, prot) == FALSE

\* Operation::has_affect, second loop: a remove state under a Contain or Compare
\* protection
RemoveAffects(op, prot) ==
    \E i \in 1..Len(op.remove_states) :
        /\ op.remove_states[i] \in DOMAIN prot
        /\ \E j \in 1..Len(prot[op.remove_states[i]]) :
              LET cond == prot[op.remove_states[i]][j] IN
              /\ state_name_of(cond) = op.remove_states[i]
              /\ cond.kind \in {"Contain", "Compare"}

\* A variant of the third loop that never flags a modification.
ModifyAffectsNever(op, ss, prot) == FALSE

\* Operation::has_affect, third loop: the modification, run on a copy of the
\* current value, fails check_data of a protection stored under its target
ModifyAffects(op, ss, prot) ==
    \E i \in 1..Len(op.modify_states) :
        LET target == op.modify_states[i].target_name IN
        /\ target \in DOMAIN prot
        /\ \E j \in 1..Len(prot[target]) :
              /\ StateSetHas(ss, target)
              /\ ~check_data(prot[target][j],
                             Modify(op.modify_states[i].modification, ss[target]))

\* Operation::has_affect
has_affect(op, ss, prot) ==
    AddAffects(op, prot) \/ RemoveAffects(op, prot) \/ ModifyAffects(op, ss, prot)

-----------------------------------------------------------------------------
(* mod.rs: find_valid_operations *)

\* A variant of the first filter that takes any effect on the goal's fact,
\* whatever its kind.
AchievesByAnyEffect(op, goal) ==
    \/ \E i \in 1..Len(op.add_states) : op.add_states[i].name = state_name_of(goal)
    \/ \E i \in 1..Len(op.remove_states) : op.remove_states[i] = state_name_of(goal)
    \/ \E i \in 1..Len(op.modify_states) :
          op.modify_states[i].target_name = state_name_of(goal)

\* The first filter of find_valid_operations, by the kind of the goal.
\* Contain and NotContain compare with goal.name(), Compare with goal.state_name().
Achieves(op, goal) ==
    CASE goal.kind = "Contain" ->
            \E i \in 1..Len(op.add_states) : op.add_states[i].name = name_of(goal)
      [] goal.kind = "NotContain" ->
            \E i \in 1..Len(op.remove_states) : op.remove_states[i] = name_of(goal)
      [] goal.kind = "Compare" ->
            \E i \in 1..Len(op.modify_states) :
                op.modify_states[i].target_name = state_name_of(goal)

\* GeneralProblemSolver::find_valid_operations over the registered operations
find_valid_operations(ops, goal, ss, prot) ==
    SelectSeq(ops, LAMBDA op : Achieves(op, goal) /\ ~has_affect(op, ss, prot))

-----------------------------------------------------------------------------
(* The problems the solver is configured with. *)

\* tests::test_operations
test_operations ==
    << Operation("drive-son-to-school",
           <<Contain("son-at-home"), Contain("car-works")>>,
           <<new_symbol("son-at-school")>>, <<"son-at-home">>, <<>>),
       Operation("shop-installs-battery",
           <<Contain("car-needs-battery"), Contain("shop-knows-problem"),
             Contain("shop-has-money")>>,
           <<new_symbol("car-works")>>, <<>>, <<>>),
       Operation("tell-shop-problem",
           <<Contain("in-communication-with-shop")>>,
           <<new_symbol("shop-knows-problem")>>, <<>>, <<>>),
       Operation("telephone-shop",
           <<Contain("know-phone-number")>>,
           <<new_symbol("in-communication-with-shop")>>, <<>>, <<>>),
       Operation("look-up-number",
           <<Contain("have-phone-book")>>,
           <<new_symbol("know-phone-number")>>, <<>>, <<>>),
       Operation("give-shop-money",
           <<Contain("have-money")>>,
           <<new_symbol("shop-has-money")>>, <<"have-money">>, <<>>) >>

\* tests::is_should_return_none_when_solving_recursive_subgoals: the extra operation
ask_phone_number ==
    Operation("ask-phone-number", <<Contain("in-communication-with-shop")>>,
              <<new_symbol("know-phone-number")>>, <<>>, <<>>)

\* tests::it_should_try_another_operation_...: the extra operation
taxi_son_to_school ==
    Operation("taxi-son-to-school",
              <<Contain("son-at-home"), Contain("have-money")>>,
              <<new_symbol("son-at-school")>>, <<"son-at-home", "have-money">>, <<>>)

\* tests::it_should_return_the_valid_operations_that_satisify_the_conditions
add_operations ==
    << Operation("add-10", <<>>, <<>>, <<>>, <<Modification("value", "add-10")>>),
       Operation("add-50", <<>>, <<>>, <<>>, <<Modification("value", "add-50")>>) >>

\* The goal of that test.
less_than_20 == Compare("less-than-20", "value", "Less", Integer(20))

\* tests::it_should_achieve_the_goal
LiteraryProblem ==
    [operations |-> test_operations,
     goals |-> <<Contain("son-at-school")>>,
     states |-> StateSetOf(<<new_symbol("son-at-home"), new_symbol("car-needs-battery"),
                            new_symbol("have-money"), new_symbol("have-phone-book")>>)]

\* tests::is_should_return_none_when_solving_recursive_subgoals
RecursiveProblem ==
    [operations |-> Append(test_operations, ask_phone_number),
     goals |-> <<Contain("son-at-school")>>,
     states |-> StateSetOf(<<new_symbol("son-at-home"), new_symbol("car-needs-battery"),
                            new_symbol("have-money")>>)]

\* s with x inserted after its first k elements
InsertAt(s, k, x) == SubSeq(s, 1, k) \o <<x>> \o SubSeq(s, k + 1, Len(s))

\* tests::it_should_try_another_operation_to_solve_goals_after_first_operation_failed,
\* with taxi-son-to-school registered at place k + 1 (the test registers it last)
SussmanProblem(k) ==
    [operations |-> InsertAt(test_operations, k, taxi_son_to_school),
     goals |-> <<Contain("son-at-school"), Contain("have-money")>>,
     states |-> StateSetOf(<<new_symbol("son-at-home"), new_symbol("have-money"),
                            new_symbol("car-works")>>)]

\* The test's Compare goal handed to solve, with the test's two operations.
CompareProblem ==
    [operations |-> add_operations,
     goals |-> <<less_than_20>>,
     states |-> StateSetOf(<<new_integer("value", 0)>>)]

\* The operations and the initial state of tests::it_should_achieve_the_goal,
\* with two goals before son-at-school: a fact that holds from the start and
\* is a prerequisite of shop-installs-battery, and the fact that operation adds.
BatteryProblem ==
    [operations |-> test_operations,
     goals |-> <<Contain("car-needs-battery"), Contain("car-works"),
                 Contain("son-at-school")>>,
     states |-> LiteraryProblem.states]

\* The operations of
\* tests::it_should_try_another_operation_to_solve_goals_after_first_operation_failed
\* (taxi-son-to-school registered last) with the goal son-at-school alone and
\* no working car: drive-son-to-school fails and the taxi is tried next.
TaxiFallbackProblem ==
    [operations |-> InsertAt(test_operations, Len(test_operations), taxi_son_to_school),
     goals |-> <<Contain("son-at-school")>>,
     states |-> StateSetOf(<<new_symbol("son-at-home"), new_symbol("have-money")>>)]

\* Problems on the operations of the tests, beyond the tests' own.
FurtherProblems == {BatteryProblem, TaxiFallbackProblem}

TestProblems ==
    {LiteraryProblem, RecursiveProblem, CompareProblem}
        \cup {SussmanProblem(k) : k \in 0..Len(test_operations)}

\* Small operations over the facts a, b, c and the integer fact v: chains and
\* cycles of prerequisites, an operation that consumes a fact, operations that
\* overwrite and modify v.
OperationPool ==
    { Operation("make-b", <<Contain("a")>>, <<new_symbol("b")>>, <<>>, <<>>),
      Operation("make-a", <<Contain("b")>>, <<new_symbol("a")>>, <<>>, <<>>),
      Operation("trade-a-for-c", <<Contain("a")>>, <<new_symbol("c")>>, <<"a">>, <<>>),
      Operation("make-c", <<>>, <<new_symbol("c")>>, <<>>, <<>>),
      Operation("inc-v", <<>>, <<>>, <<>>, <<Modification("v", "add-1")>>),
      Operation("set-b", <<Contain("c")>>,
                <<new_symbol("b"), new_integer("v", 0)>>, <<>>, <<>>),
      Operation("set-c", <<>>, <<new_symbol("c"), new_integer("v", 2)>>, <<>>, <<>>) }

GoalPool ==
    { Contain("a"), Contain("b"), Contain("c"), NotContain("a"),
      Compare("v", "v", "Less", Integer(2)),
      Compare("v-at-least-1", "v", "GreaterEqual", Integer(1)) }

InitialStates ==
    { EmptyStateSet,
      StateSetOf(<<new_symbol("a")>>),
      StateSetOf(<<new_integer("v", 0)>>),
      StateSetOf(<<new_symbol("a"), new_integer("v", 1)>>) }

\* Whether x occurs in the sequence s.
Occurs(s, x) == \E i \in 1..Len(s) : s[i] = x

RECURSIVE Lists(_, _)
\* The lists of at most n distinct elements of S.
Lists(S, n) ==
    IF n = 0 THEN {<<>>}
    ELSE LET shorter == Lists(S, n - 1) IN
         shorter \cup UNION { {Append(l, x) : x \in {y \in S : ~Occurs(l, y)}} : l \in shorter }

PoolProblems ==
    [operations : Lists(OperationPool, MaxOps),
     goals : Lists(GoalPool, MaxGoals),
     states : InitialStates]

Problems == TestProblems \cup FurtherProblems \cup PoolProblems

-----------------------------------------------------------------------------
(* mod.rs: the search *)

\* Option<(StateSet, Vec<Operation>)>
Some(ss, ops) == [some |-> TRUE, states |-> ss, operations |-> ops]

None == [some |-> FALSE, states |-> EmptyStateSet, operations |-> <<>>]

NoCall == [fn |-> "none"]

SolveAllFrame(gs, ss) ==
    [fn |-> "solve_all", pc |-> "enter", goals |-> gs, current_states |-> ss,
     new_states |-> ss, unachieved_goals |-> <<>>, i |-> 1, operations |-> <<>>]

\* What a candidate of solve_one is tried with: the working state, the goal
\* stack and the protected goals.
TriedWith(ss, stack, prot) ==
    [current_states |-> ss, goal_stack |-> stack, protected_goals |-> prot]

\* The fields `before`, `entry_stack` and `outcomes` are history: what the
\* candidate tried last was tried with, the goal stack before the push of
\* line 120, and what apply_operation returned for the candidates that failed.
SolveOneFrame(goal, ss) ==
    [fn |-> "solve_one", pc |-> "enter", goal |-> goal, current_states |-> ss,
     valid_operations |-> <<>>, i |-> 1,
     before |-> TriedWith(ss, <<>>, EmptyConditionSet),
     entry_stack |-> <<>>, outcomes |-> <<>>]

ApplyOperationFrame(op, ss) ==
    [fn |-> "apply_operation", pc |-> "enter", target_operation |-> op,
     current_states |-> ss]

Top == frames[Len(frames)]

Running(fn, pc) ==
    /\ phase = "running"
    /\ frames # <<>>
    /\ Top.fn = fn
    /\ Top.pc = pc

\* A call: the callee's frame goes on top of the caller's, which waits.
CallFrom(caller, f) ==
    /\ Len(frames) < MaxFrames
    /\ frames' = Append([frames EXCEPT ![Len(frames)] = [caller EXCEPT !.pc = "wait"]], f)

Call(f) == CallFrom(Top, f)

\* A return: the frame is dropped and the value handed to the caller; the
\* return of the outermost solve_all ends solve.
Return(v) ==
    /\ frames' = SubSeq(frames, 1, Len(frames) - 1)
    /\ ret' = v
    /\ phase' = IF Len(frames) = 1 THEN "done" ELSE phase

\* The top frame changed by f.
Step(f) == frames' = [frames EXCEPT ![Len(frames)] = f]

RECURSIVE ProtectAchieved(_, _, _)
\* solve_all, the loop of lines 71-78: every goal that checks true is inserted
\* into protected_goals under its state_name
ProtectAchieved(prot, gs, ss) ==
    IF gs = <<>> THEN prot
    ELSE ProtectAchieved(
            IF check(Head(gs), ss)
            THEN ConditionSetInsert(prot, state_name_of(Head(gs)), Head(gs))
            ELSE prot,
            Tail(gs), ss)

\* solve_all, the loop of lines 71-78: the goals that check false, in order
Unachieved(gs, ss) == SelectSeq(gs, LAMBDA g : ~check(g, ss))

\* A variant of the final check of solve_all that accepts any state.
all_goals_unchecked(gs, ss) == TRUE

\* solve_all, line 92: goals.iter().all(|condition| condition.check(&new_states))
all_goals_achieved(gs, ss) == \A i \in 1..Len(gs) : check(gs[i], ss)

RECURSIVE RemoveProtections(_, _)
\* solve_all, lines 93-95: every goal of the call is removed from protected_goals
RemoveProtections(prot, gs) ==
    IF gs = <<>> THEN prot
    ELSE RemoveProtections(
            ConditionSetRemove(prot, state_name_of(Head(gs)), Head(gs)), Tail(gs))

\* A variant of the cycle guard that never finds the goal.
never_on_stack(stack, goal) == FALSE

\* solve_one, line 115: goal_stack.contains(&goal)
on_goal_stack(stack, goal) == \E i \in 1..Len(stack) : stack[i] = goal

\* A variant of apply_operation that applies the operation to the current
\* states when its prerequisites could not be achieved.
apply_operation_unconditionally(op, ss, res) ==
    IF res.some
    THEN Some(apply(op, res.states), Append(res.operations, op))
    ELSE Some(apply(op, ss), <<op>>)

\* A variant of apply_operation that puts the operation before the
\* operations that achieve its prerequisites.
apply_operation_prepends(op, ss, res) ==
    IF res.some
    THEN Some(apply(op, res.states), <<op>> \o res.operations)
    ELSE None

\* apply_operation, lines 207-214: what it makes of the result of solve_all
apply_operation_result(op, ss, res) ==
    IF res.some
    THEN Some(apply(op, res.states), Append(res.operations, op))
    ELSE None

\* The goals of gs that check true in ss, each recorded at plan length 0.
RecordedAtEntry(gs, ss) ==
    LET held == SelectSeq(gs, LAMBDA g : check(g, ss)) IN
    [i \in 1..Len(held) |-> [goal |-> held[i], at |-> 0]]

\* GeneralProblemSolver::new, set_operations, set_goals, set_states
Init ==
    /\ \E p \in Problems :
          /\ operations = p.operations
          /\ goals = p.goals
          /\ states = p.states
    /\ goal_stack = <<>>
    /\ protected_goals = EmptyConditionSet
    /\ frames = <<>>
    /\ ret = None
    /\ phase = "idle"
    /\ achieved = <<>>
    /\ cut = FALSE
    /\ unit = NoCall
    /\ previous = <<>>

\* A variant of the start of solve that keeps the goal stack and the
\* protected goals as the last call left them, as fields of the solver would be.
StartSolveOnOldLocals ==
    /\ goal_stack' = goal_stack
    /\ protected_goals' = protected_goals
    /\ frames' = <<SolveAllFrame(goals, states)>>
    /\ phase' = "running"

\* solve, lines 43-51: the two fresh locals and the call of solve_all on the
\* configured goals and states
StartSolve ==
    /\ goal_stack' = <<>>
    /\ protected_goals' = EmptyConditionSet
    /\ frames' = <<SolveAllFrame(goals, states)>>
    /\ phase' = "running"

\* solve, line 52: the value solve hands to its caller
solve_result(r) ==
    IF r.some THEN [some |-> TRUE, operations |-> r.operations] ELSE [some |-> FALSE]

\* The first call of solve on the solver.
Solve ==
    /\ phase = "idle"
    /\ StartSolve
    /\ UNCHANGED <<operations, goals, states, ret, achieved, cut, unit, previous>>

\* A further call of solve on the same solver, after the last has returned.
SolveAgain ==
    /\ phase = "done"
    /\ Len(previous) < MaxSolves - 1
    /\ StartSolve
    /\ previous' = Append(previous, solve_result(ret))
    /\ achieved' = <<>>
    /\ cut' = FALSE
    /\ UNCHANGED <<operations, goals, states, ret, unit>>

\* solve_all, lines 64-80: the early return, or the partition of the goals
SolveAllEnter ==
    /\ Running("solve_all", "enter")
    /\ IF has_reached(Top.current_states, Top.goals)
       THEN /\ Return(Some(Top.current_states, <<>>))
            /\ UNCHANGED <<protected_goals, achieved>>
       ELSE /\ protected_goals' =
                  ProtectAchieved(protected_goals, Top.goals, Top.current_states)
            /\ Step([Top EXCEPT !.pc = "loop",
                                !.unachieved_goals = Unachieved(Top.goals, Top.current_states)])
            /\ achieved' = IF Len(frames) = 1
                           THEN RecordedAtEntry(Top.goals, Top.current_states)
                           ELSE achieved
            /\ UNCHANGED <<ret, phase>>
    /\ UNCHANGED <<operations, goals, states, goal_stack, cut, unit, previous>>

\* solve_all, lines 83-85 and 92-99: the call of solve_one on the next
\* unachieved goal, or after the last one the final check
SolveAllLoop ==
    /\ Running("solve_all", "loop")
    /\ IF Top.i <= Len(Top.unachieved_goals)
       THEN /\ Call(SolveOneFrame(Top.unachieved_goals[Top.i], Top.new_states))
            /\ UNCHANGED <<protected_goals, ret, phase>>
       ELSE IF all_goals_achieved(Top.goals, Top.new_states)
            THEN /\ protected_goals' = RemoveProtections(protected_goals, Top.goals)
                 /\ Return(Some(Top.new_states, Top.operations))
            ELSE /\ Return(None)
                 /\ UNCHANGED protected_goals
    /\ UNCHANGED <<operations, goals, states, goal_stack, achieved, cut, unit, previous>>

\* solve_all, lines 85-88: solve_one has returned; `?` hands a failure on
SolveAllResume ==
    /\ Running("solve_all", "wait")
    /\ IF ret.some
       THEN LET goal == Top.unachieved_goals[Top.i]
                ops == Top.operations \o ret.operations IN
            /\ protected_goals' =
                  ConditionSetInsert(protected_goals, state_name_of(goal), goal)
            /\ Step([Top EXCEPT !.pc = "loop", !.operations = ops,
                                !.new_states = ret.states, !.i = @ + 1])
            /\ achieved' = IF Len(frames) = 1
                           THEN Append(achieved, [goal |-> goal, at |-> Len(ops)])
                           ELSE achieved
            /\ UNCHANGED <<ret, phase>>
       ELSE /\ Return(None)
            /\ UNCHANGED <<protected_goals, achieved>>
    /\ UNCHANGED <<operations, goals, states, goal_stack, cut, unit, previous>>

\* solve_one, lines 111-120: the two early returns, or the candidates are
\* found and the goal is pushed
SolveOneEnter ==
    /\ Running("solve_one", "enter")
    /\ IF check(Top.goal, Top.current_states)
       THEN /\ Return(Some(Top.current_states, <<>>))
            /\ UNCHANGED <<goal_stack, cut>>
       ELSE IF on_goal_stack(goal_stack, Top.goal)
            THEN /\ Return(None)
                 /\ cut' = TRUE
                 /\ UNCHANGED goal_stack
            ELSE /\ Step([Top EXCEPT !.pc = "loop",
                                     !.valid_operations =
                                         find_valid_operations(operations, Top.goal,
                                             Top.current_states, protected_goals),
                                     !.entry_stack = goal_stack])
                 /\ goal_stack' = Append(goal_stack, Top.goal)
                 /\ UNCHANGED <<ret, phase, cut>>
    /\ UNCHANGED <<operations, goals, states, protected_goals, achieved, unit, previous>>

\* solve_one, lines 122-128 and 136-137: the call of apply_operation on the
\* next candidate, or after the last one the pop and the failure
SolveOneLoop ==
    /\ Running("solve_one", "loop")
    /\ IF Top.i <= Len(Top.valid_operations)
       THEN /\ CallFrom([Top EXCEPT !.before =
                                TriedWith(Top.current_states, goal_stack, protected_goals)],
                          ApplyOperationFrame(Top.valid_operations[Top.i],
                                              Top.current_states))
            /\ UNCHANGED <<goal_stack, ret, phase>>
       ELSE /\ goal_stack' = SubSeq(goal_stack, 1, Len(goal_stack) - 1)
            /\ Return(None)
    /\ UNCHANGED <<operations, goals, states, protected_goals, achieved, cut, unit, previous>>

\* A variant of lines 130-133 that goes on to the next candidate after a
\* success as after a failure.
SolveOneResumeTriesOn ==
    /\ Running("solve_one", "wait")
    /\ Step([Top EXCEPT !.pc = "loop", !.i = @ + 1, !.outcomes = Append(@, ret)])
    /\ UNCHANGED <<operations, goals, states, goal_stack, protected_goals, ret,
                   phase, achieved, cut, unit, previous>>

\* solve_one, lines 130-133: apply_operation has returned; the first success
\* is popped and returned, a failure moves on to the next candidate
SolveOneResume ==
    /\ Running("solve_one", "wait")
    /\ IF ret.some
       THEN /\ goal_stack' = SubSeq(goal_stack, 1, Len(goal_stack) - 1)
            /\ Return(ret)
       ELSE /\ Step([Top EXCEPT !.pc = "loop", !.i = @ + 1,
                                !.outcomes = Append(@, ret)])
            /\ UNCHANGED <<goal_stack, ret, phase>>
    /\ UNCHANGED <<operations, goals, states, protected_goals, achieved, cut, unit, previous>>

\* apply_operation, lines 202-207: the call of solve_all on the prerequisites
ApplyOperationEnter ==
    /\ Running("apply_operation", "enter")
    /\ Call(SolveAllFrame(Top.target_operation.prerequisites, Top.current_states))
    /\ UNCHANGED <<operations, goals, states, goal_stack, protected_goals, ret,
                   phase, achieved, cut, unit, previous>>

\* apply_operation, lines 207-214: solve_all has returned
ApplyOperationResume ==
    /\ Running("apply_operation", "wait")
    /\ Return(apply_operation_result(Top.target_operation, Top.current_states, ret))
    /\ UNCHANGED <<operations, goals, states, goal_stack, protected_goals,
                   achieved, cut, unit, previous>>

Next ==
    \/ Solve
    \/ SolveAllEnter
    \/ SolveAllLoop
    \/ SolveAllResume
    \/ SolveOneEnter
    \/ SolveOneLoop
    \/ SolveOneResume
    \/ ApplyOperationEnter
    \/ ApplyOperationResume

Spec == Init /\ [][Next]_vars

\* The solver called up to MaxSolves times, one call after another.
TwiceNext == Next \/ SolveAgain

TwiceSpec == Init /\ [][TwiceNext]_vars

\* The search is one sequential computation: a step that can be taken is taken.
FairSpec == Init /\ [][Next]_vars /\ WF_vars(Next)

-----------------------------------------------------------------------------
(* Direct calls of check and find_valid_operations, as the tests make them:  *)
(* one call on a solver whose operations are registered.                    *)

UnitNames == {"v", "w"}

UnitData == {Symbol} \cup {Integer(n) : n \in 0..MaxInt}

UnitStateSets == UNION { [D -> UnitData] : D \in SUBSET UnitNames }

UnitConditions ==
    {Contain(n) : n \in UnitNames} \cup {NotContain(n) : n \in UnitNames}
        \cup {Compare(id, target, o, d) :
                id \in UnitNames, target \in UnitNames, o \in CompareOperators, d \in UnitData}

\* The state set and the protections of the test of find_valid_operations.
value_is_0 == StateSetOf(<<new_integer("value", 0)>>)

less_than_20_protected == ConditionSetInsert(EmptyConditionSet, "value", less_than_20)

\* Operations with each kind of effect on the facts a, c and v.
effect_operations ==
    << Operation("make-a", <<Contain("b")>>, <<new_symbol("a")>>, <<>>, <<>>),
       Operation("trade-a-for-c", <<Contain("a")>>, <<new_symbol("c")>>, <<"a">>, <<>>),
       Operation("trade-v-for-c", <<>>, <<new_symbol("c")>>, <<"v">>, <<>>),
       Operation("make-c", <<>>, <<new_symbol("c")>>, <<>>, <<>>),
       Operation("inc-v", <<>>, <<>>, <<>>, <<Modification("v", "add-1")>>) >>

UnitOperationLists ==
    { add_operations, <<add_operations[2], add_operations[1]>>, test_operations,
      effect_operations }
        \cup Lists(OperationPool, 1)

UnitGoals == {less_than_20, Contain("son-at-school")} \cup GoalPool

UnitCurrentStates ==
    {value_is_0, StateSetOf(<<new_integer("value", 15)>>)} \cup InitialStates

UnitProtections ==
    { EmptyConditionSet, less_than_20_protected,
      ConditionSetInsert(EmptyConditionSet, "a", Contain("a")),
      ConditionSetInsert(EmptyConditionSet, "a", NotContain("a")),
      ConditionSetInsert(EmptyConditionSet, "v", Compare("v", "v", "Less", Integer(2))),
      ConditionSetInsert(EmptyConditionSet, "v", Contain("v")),
      ConditionSetInsert(EmptyConditionSet, "v", NotContain("v")),
      ConditionSetInsert(
          ConditionSetInsert(EmptyConditionSet, "a", Contain("a")),
          "v", Compare("v", "v", "GreaterEqual", Integer(1))) }

\* A solver with its operations registered, on which nothing is running.
UnitInit ==
    /\ operations \in UnitOperationLists
    /\ goals = <<>>
    /\ states = EmptyStateSet
    /\ goal_stack = <<>>
    /\ protected_goals = EmptyConditionSet
    /\ frames = <<>>
    /\ ret = None
    /\ phase = "idle"
    /\ achieved = <<>>
    /\ cut = FALSE
    /\ unit = NoCall
    /\ previous = <<>>

\* condition.check(&state_set)
CallCheck ==
    /\ unit = NoCall
    /\ \E c \in UnitConditions, ss \in UnitStateSets :
          unit' = [fn |-> "check", condition |-> c, state_set |-> ss,
                   result |-> check(c, ss)]
    /\ UNCHANGED solver_vars

\* gps.find_valid_operations(&goal, &current_states, &condition_set)
CallFindValidOperations ==
    /\ unit = NoCall
    /\ \E goal \in UnitGoals, ss \in UnitCurrentStates, prot \in UnitProtections :
          unit' = [fn |-> "find_valid_operations", goal |-> goal,
                   current_states |-> ss, protected_goals |-> prot,
                   result |-> find_valid_operations(operations, goal, ss, prot)]
    /\ UNCHANGED solver_vars

\* operation.has_affect(&current_states, &condition_set), for a registered
\* operation
CallHasAffect ==
    /\ unit = NoCall
    /\ \E i \in 1..Len(operations), ss \in UnitCurrentStates, prot \in UnitProtections :
          unit' = [fn |-> "has_affect", operation |-> operations[i],
                   current_states |-> ss, protected_goals |-> prot,
                   result |-> has_affect(operations[i], ss, prot)]
    /\ UNCHANGED solver_vars

\* Operations over the facts v and w with every mix of the three kinds of
\* effect on the same fact.
UnitAddStates ==
    { <<>>, <<new_integer("v", 1)>>, <<new_symbol("v")>>,
      <<new_symbol("w"), new_integer("v", 2)>>,
      <<new_integer("v", 1), new_integer("v", 2)>> }

UnitRemoveStates == { <<>>, <<"v">>, <<"w">>, <<"w", "v">> }

UnitModifyStates ==
    { <<>>, <<Modification("v", "add-1")>>, <<Modification("w", "add-10")>>,
      <<Modification("v", "add-1"), Modification("v", "add-10")>>,
      <<Modification("w", "add-1"), Modification("v", "add-1")>>,
      <<Modification("v", "add-1"), Modification("v", "add-1")>> }

UnitApplyOperations ==
    { Operation("op", <<>>, a, r, m) :
        a \in UnitAddStates, r \in UnitRemoveStates, m \in UnitModifyStates }

\* operation.apply(&mut state_set)
CallApply ==
    /\ unit = NoCall
    /\ \E op \in UnitApplyOperations, ss \in UnitStateSets :
          unit' = [fn |-> "apply", operation |-> op, state_set |-> ss,
                   result |-> apply(op, ss)]
    /\ UNCHANGED solver_vars

\* condition.check_data(&state_data)
CallCheckData ==
    /\ unit = NoCall
    /\ \E c \in UnitConditions, d \in UnitData :
          unit' = [fn |-> "check_data", condition |-> c, state_data |-> d,
                   result |-> check_data(c, d)]
    /\ UNCHANGED solver_vars

\* a == b and a.partial_cmp(&b)
CallCompare ==
    /\ unit = NoCall
    /\ \E a \in UnitData, b \in UnitData :
          unit' = [fn |-> "compare", a |-> a, b |-> b,
                   eq |-> eq(a, b), partial_cmp |-> partial_cmp(a, b)]
    /\ UNCHANGED solver_vars

\* Contain::new(name).check(&state_set) and NotContain::new(name).check(&state_set)
CallCheckPresence ==
    /\ unit = NoCall
    /\ \E n \in UnitNames, ss \in UnitStateSets :
          unit' = [fn |-> "check_presence", name |-> n, state_set |-> ss,
                   contain |-> check(Contain(n), ss),
                   not_contain |-> check(NotContain(n), ss)]
    /\ UNCHANGED solver_vars

\* operation.has_affect(&state_set, &condition_set), then
\* operation.apply(&mut state_set) on the same state set
CallHasAffectThenApply ==
    /\ unit = NoCall
    /\ \E op \in UnitApplyOperations, ss \in UnitStateSets, prot \in UnitProtections :
          unit' = [fn |-> "has_affect_then_apply", operation |-> op,
                   state_set |-> ss, protected_goals |-> prot,
                   flagged |-> has_affect(op, ss, prot),
                   result |-> apply(op, ss)]
    /\ UNCHANGED solver_vars

UnitNext ==
    \/ CallHasAffectThenApply
    \/ CallCheck
    \/ CallFindValidOperations
    \/ CallHasAffect
    \/ CallApply
    \/ CallCheckData
    \/ CallCompare
    \/ CallCheckPresence

UnitSpec == UnitInit /\ [][UnitNext]_vars

-----------------------------------------------------------------------------
(* What solve returned, and the plan replayed from the initial state. *)

Done == phase = "done"

\* solve, line 52: .map(|(_, operations)| operations)
Succeeded == Done /\ ret.some

Failed == Done /\ ~ret.some

Plan == ret.operations

PlanNames == [i \in 1..Len(Plan) |-> Plan[i].name]

RECURSIVE Replay(_, _)
\* The state set after the operations of ops are applied to ss one after another.
Replay(ops, ss) ==
    IF ops = <<>> THEN ss ELSE Replay(Tail(ops), apply(Head(ops), ss))

\* The state set after the first k steps of the returned plan.
StateAfter(k) == Replay(SubSeq(Plan, 1, k), states)

\* The call stack stays below the bound of the model.
DepthOK == Len(frames) < MaxFrames

-----------------------------------------------------------------------------
(* Claims about solve *)

\* C1: whenever solve returns a plan, the operations of the plan applied one
\* after another to the configured initial state give a state in which every
\* configured goal checks true.
C1_PlanReachesGoals == Succeeded => has_reached(StateAfter(Len(Plan)), goals)

\* C1 witness: solve has returned a plan of two steps or more for goals that
\* did not hold at the start.
C1_Witness ==
    /\ Succeeded
    /\ Len(Plan) >= 2
    /\ ~has_reached(states, goals)
    /\ has_reached(StateAfter(Len(Plan)), goals)

\* C2: in a returned plan replayed from the initial state, every operation is
\* applied in a state in which all of its prerequisites check true.
C2_PrerequisitesHoldAtEachStep ==
    Succeeded =>
        \A k \in 1..Len(Plan) : has_reached(StateAfter(k - 1), Plan[k].prerequisites)

\* C2 witness: a returned plan holds an operation whose prerequisites were
\* false at the start and are true when its turn comes.
C2_Witness ==
    /\ Succeeded
    /\ \E k \in 1..Len(Plan) :
          /\ ~has_reached(states, Plan[k].prerequisites)
          /\ has_reached(StateAfter(k - 1), Plan[k].prerequisites)

\* C3: in a returned plan replayed from the initial state, a goal the
\* top-level solve_all has recorded as achieved checks true after every step
\* of the plan that comes later than its recording.
C3_AchievedGoalsStayAchieved ==
    Succeeded =>
        \A r \in 1..Len(achieved) :
            \A k \in (achieved[r].at + 1)..Len(Plan) :
                check(achieved[r].goal, StateAfter(k))

\* C4: solve terminates, also when the prerequisites of the operations depend
\* on each other in a cycle.
C4_SolveTerminates == <>Done

\* C4 witness: solve has returned after the cycle guard turned down a goal
\* that was met again while it was being pursued.
C4_Witness == Done /\ cut

Adds(op, n) == \E i \in 1..Len(op.add_states) : op.add_states[i].name = n

Removes(op, n) == \E i \in 1..Len(op.remove_states) : op.remove_states[i] = n

Touches(op, n) ==
    \/ Adds(op, n)
    \/ Removes(op, n)
    \/ \E i \in 1..Len(op.modify_states) : op.modify_states[i].target_name = n

\* The place of the non-interfering operation when the configured problem has
\* the shape of the Sussman test (goals Contain(g1), Contain(g2), g2 held at
\* the start and g1 not, the operations adding g1 being one applicable
\* operation that removes g2 and one applicable operation that leaves g2
\* alone), 0 otherwise.
SussmanGood ==
    IF /\ Len(goals) = 2
       /\ goals[1].kind = "Contain" /\ goals[2].kind = "Contain"
       /\ goals[1] # goals[2]
       /\ ~StateSetHas(states, goals[1].name)
       /\ StateSetHas(states, goals[2].name)
       /\ \E i, j \in 1..Len(operations) :
             /\ i # j
             /\ \A k \in 1..Len(operations) :
                   Adds(operations[k], goals[1].name) <=> k \in {i, j}
             /\ Removes(operations[i], goals[2].name)
             /\ ~Touches(operations[j], goals[2].name)
             /\ ~Removes(operations[j], goals[1].name)
             /\ has_reached(states, operations[i].prerequisites)
             /\ has_reached(states, operations[j].prerequisites)
    THEN CHOOSE j \in 1..Len(operations) :
             /\ Adds(operations[j], goals[1].name)
             /\ ~Touches(operations[j], goals[2].name)
    ELSE 0

IsSussmanTest ==
    \E k \in 0..Len(test_operations) :
        /\ operations = SussmanProblem(k).operations
        /\ goals = SussmanProblem(k).goals
        /\ states = SussmanProblem(k).states

\* C6: the Sussman test problem, with taxi-son-to-school registered at any
\* place, gives the plan [drive-son-to-school]; and every problem of the
\* same shape gives the plan made of the non-interfering operation alone,
\* whichever of the two operations is registered first.
C6_NonInterferingOperationChosen ==
    /\ (Done /\ IsSussmanTest) => (ret.some /\ PlanNames = <<"drive-son-to-school">>)
    /\ (Done /\ SussmanGood # 0) => (ret.some /\ Plan = <<operations[SussmanGood]>>)

\* C6 witness: the test problem with taxi-son-to-school registered first has
\* returned the plan drive-son-to-school.
C6_Witness ==
    /\ Succeeded
    /\ operations = SussmanProblem(0).operations
    /\ goals = SussmanProblem(0).goals
    /\ PlanNames = <<"drive-son-to-school">>

IsProblem(p) ==
    /\ operations = p.operations
    /\ goals = p.goals
    /\ states = p.states

\* C7: the six operations of test_operations, the initial state {son-at-home,
\* car-needs-battery, have-money, have-phone-book} and the goal
\* Contain(son-at-school) give exactly the six-step plan of the test.
C7_LiteraryPlan ==
    (Done /\ IsProblem(LiteraryProblem)) =>
        /\ ret.some
        /\ PlanNames = <<"look-up-number", "telephone-shop", "tell-shop-problem",
                         "give-shop-money", "shop-installs-battery",
                         "drive-son-to-school">>

\* C7 witness: solve has returned a six-step plan for that problem.
C7_Witness == Succeeded /\ IsProblem(LiteraryProblem) /\ Len(Plan) = 6

\* C8: with ask-phone-number registered too and no have-phone-book, solve
\* fails, the cycle guard having turned down a goal on the goal stack.
C8_RecursiveSubgoalsFail ==
    (Done /\ IsProblem(RecursiveProblem)) => (~ret.some /\ cut)

\* C8 witness: solve has returned failure for that problem.
C8_Witness == Failed /\ IsProblem(RecursiveProblem) /\ cut

-----------------------------------------------------------------------------
(* Claims about the initial state, find_valid_operations and check *)

\* A condition as the design states it: Contain holds when the fact is
\* present, NotContain when it is absent, Compare when the fact named
\* target_name is present and its value satisfies the operator.
Satisfies(c, ss) ==
    CASE c.kind = "Contain" -> StateSetHas(ss, c.name)
      [] c.kind = "NotContain" -> ~StateSetHas(ss, c.name)
      [] c.kind = "Compare" ->
            StateSetHas(ss, c.state_name) /\ check_data(c, ss[c.state_name])

\* C5: if the initial state satisfies every goal (an empty goal list
\* included), solve returns success with an empty plan, whatever operations
\* are registered.
C5_SatisfiedGoalsGiveEmptyPlan ==
    (Done /\ \A i \in 1..Len(goals) : Satisfies(goals[i], states)) =>
        (ret.some /\ Plan = <<>>)

\* The names of the operations a call of find_valid_operations returned.
UnitResultNames == [i \in 1..Len(unit.result) |-> unit.result[i].name]

\* The call the test of find_valid_operations makes: add-10 and add-50
\* registered in that order, the goal less-than-20, the state {value: 0} and
\* the goal itself protected under "value".
IsCompareTestCall ==
    /\ unit.fn = "find_valid_operations"
    /\ operations = add_operations
    /\ unit.goal = less_than_20
    /\ unit.current_states = value_is_0
    /\ unit.protected_goals = less_than_20_protected

\* C9 as stated: that call returns exactly [add-10, add-50].
C9_BothOperationsReturned ==
    IsCompareTestCall => UnitResultNames = <<"add-10", "add-50">>

\* C9 amended: that call returns exactly [add-10]; add-50 is filtered out,
\* because 0 + 50 fails the protected less-than-20.
C9_OnlyAdd10Returned == IsCompareTestCall => UnitResultNames = <<"add-10">>

\* C9 witness: the call of the test has been made and has returned one operation.
C9_Witness == IsCompareTestCall /\ Len(unit.result) = 1

\* C10: for every Compare condition and state set, check is true exactly
\* when the state set holds a fact named target_name whose value satisfies
\* the operator against the value, also when id differs from target_name.
C10_CheckReadsTargetName ==
    (unit.fn = "check" /\ unit.condition.kind = "Compare") =>
        (unit.result <=> Satisfies(unit.condition, unit.state_set))

-----------------------------------------------------------------------------
(* Claims about has_affect, apply and the values *)

\* Fact n has an active protection of one of the kinds: a condition of that
\* kind on n, stored in the index under n.
HasProtection(prot, n, kinds) ==
    /\ n \in DOMAIN prot
    /\ \E j \in 1..Len(prot[n]) :
          prot[n][j].kind \in kinds /\ state_name_of(prot[n][j]) = n

\* One of the add-effects of op names a fact under a NotContain protection, or
\* one of its remove-effects a fact under a Contain or Compare protection.
Forbidden(op, prot) ==
    \/ \E i \in 1..Len(op.add_states) :
          HasProtection(prot, op.add_states[i].name, {"NotContain"})
    \/ \E i \in 1..Len(op.remove_states) :
          HasProtection(prot, op.remove_states[i], {"Contain", "Compare"})

\* C11: no operation returned by find_valid_operations has an add-effect on
\* a fact under an active NotContain protection or a remove-effect on a fact
\* under an active Contain or Compare protection.
C11_ForbiddenOperationsNeverCandidates ==
    unit.fn = "find_valid_operations" =>
        \A i \in 1..Len(unit.result) : ~Forbidden(unit.result[i], unit.protected_goals)

\* C11 witness: a call has left out a registered operation that achieves the
\* goal and has such an effect, and has returned another operation.
C11_Witness ==
    /\ unit.fn = "find_valid_operations"
    /\ unit.result # <<>>
    /\ \E i \in 1..Len(operations) :
          /\ Achieves(operations[i], unit.goal)
          /\ Forbidden(operations[i], unit.protected_goals)
          /\ ~Occurs(unit.result, operations[i])

\* The operation has modify-effects and no other effect.
ModifyOnly(op) ==
    op.add_states = <<>> /\ op.remove_states = <<>> /\ op.modify_states # <<>>

\* Some modify-effect of op, on a fact present in ss, turns a copy of the
\* fact's value into one that fails a Compare protection stored under the fact.
FailsCompareProtection(op, ss, prot) ==
    \E i \in 1..Len(op.modify_states) :
        LET target == op.modify_states[i].target_name IN
        /\ StateSetHas(ss, target)
        /\ target \in DOMAIN prot
        /\ \E j \in 1..Len(prot[target]) :
              /\ prot[target][j].kind = "Compare"
              /\ ~check_data(prot[target][j],
                             Modify(op.modify_states[i].modification, ss[target]))

\* C12: for an operation with only modify-effects has_affect returns true
\* exactly when a modify-effect on a present fact gives a value that fails an
\* active Compare protection on that fact; Contain and NotContain protections
\* never flag a modify-effect.
C12_ModifyFlaggedByCompareOnly ==
    (unit.fn = "has_affect" /\ ModifyOnly(unit.operation)) =>
        (unit.result <=>
            FailsCompareProtection(unit.operation, unit.current_states,
                                   unit.protected_goals))

\* The effects of op on the fact n.
AddsTo(op, n) == SelectSeq(op.add_states, LAMBDA st : st.name = n)

RemovesFact(op, n) == \E i \in 1..Len(op.remove_states) : op.remove_states[i] = n

ModifiesOf(op, n) == SelectSeq(op.modify_states, LAMBDA m : m.target_name = n)

RECURSIVE ModifyAll(_, _)
\* The value d after the closures of mods have run on it in order.
ModifyAll(mods, d) ==
    IF mods = <<>> THEN d
    ELSE ModifyAll(Tail(mods), Modify(Head(mods).modification, d))

\* C13: apply runs the effects in the order add, remove, modify. A fact the
\* operation both adds and removes ends absent; a fact it adds and does not
\* remove ends with the value added last (whatever value it had before), with
\* the operation's modify-effects on that fact run on the added value; a
\* modify-effect on a fact the operation removes leaves the fact absent.
C13_ApplyOrderAddRemoveModify ==
    unit.fn = "apply" =>
        \A n \in UnitNames :
            LET op == unit.operation
                added == AddsTo(op, n)
            IN  /\ RemovesFact(op, n) => ~StateSetHas(unit.result, n)
                /\ (added # <<>> /\ ~RemovesFact(op, n)) =>
                      /\ StateSetHas(unit.result, n)
                      /\ unit.result[n] =
                            ModifyAll(ModifiesOf(op, n), added[Len(added)].data)

\* C13 witness: one call of apply on a state set that holds v and w has
\* added and removed w, and has added v over its old value and modified it.
C13_Witness ==
    /\ unit.fn = "apply"
    /\ StateSetHas(unit.state_set, "v") /\ StateSetHas(unit.state_set, "w")
    /\ AddsTo(unit.operation, "w") # <<>> /\ RemovesFact(unit.operation, "w")
    /\ ~StateSetHas(unit.result, "w")
    /\ AddsTo(unit.operation, "v") # <<>> /\ ModifiesOf(unit.operation, "v") # <<>>
    /\ StateSetHas(unit.result, "v")
    /\ unit.result["v"] # unit.state_set["v"]

\* The state set as the add and remove loops of the call leave it.
AfterAddsAndRemoves ==
    ApplyRemoves(unit.operation.remove_states,
                 ApplyAdds(unit.operation.add_states, unit.state_set))

\* C14: a modify-effect whose target is absent once the adds and removes have
\* run is skipped: the target stays absent, no fact is created, and every
\* fact that no modify-effect targets keeps the value the adds and removes
\* left.
C14_AbsentModifyTargetSkipped ==
    (/\ unit.fn = "apply"
     /\ \E i \in 1..Len(unit.operation.modify_states) :
           ~StateSetHas(AfterAddsAndRemoves, unit.operation.modify_states[i].target_name))
    => /\ DOMAIN unit.result = DOMAIN AfterAddsAndRemoves
       /\ \A n \in DOMAIN unit.result :
             ModifiesOf(unit.operation, n) = <<>> =>
                unit.result[n] = AfterAddsAndRemoves[n]

\* C14 witness: apply has run an operation with a modify-effect on v, absent
\* after the adds and removes, and the result holds w and no v.
C14_Witness ==
    /\ unit.fn = "apply"
    /\ ModifiesOf(unit.operation, "v") # <<>>
    /\ ~StateSetHas(AfterAddsAndRemoves, "v")
    /\ StateSetHas(unit.result, "w")
    /\ ~StateSetHas(unit.result, "v")

\* A call of Compare::check_data on a value of the other variant than the
\* condition's.
IsCrossVariantCall ==
    /\ unit.fn = "check_data"
    /\ unit.condition.kind = "Compare"
    /\ unit.state_data.tag # unit.condition.value.tag

\* C15, as claimed: when the fact's value and the Compare value are of
\* different variants the condition is not satisfied, under any of the six
\* operators.
C15_CrossVariantNeverSatisfied == IsCrossVariantCall => ~unit.result

\* C15: when the fact's value and the Compare value are of different
\* variants the condition is not satisfied under Equal, Greater, GreaterEqual,
\* Less and LessEqual, and is satisfied under NotEqual.
C15_CrossVariantSatisfiedOnlyByNotEqual ==
    IsCrossVariantCall => (unit.result <=> unit.condition.operator = "NotEqual")

\* C15 witness: an Integer compared with a Symbol under Less has given false.
C15_Witness ==
    /\ IsCrossVariantCall
    /\ unit.state_data.tag = "Integer"
    /\ unit.condition.operator = "Less"
    /\ ~unit.result

\* C16: any two Symbol values are equal; Integer(x) equals Integer(y) exactly
\* when x = y; a Symbol and an Integer are never equal and partial_cmp gives
\* None for them; within one variant partial_cmp gives Equal exactly when the
\* values are equal.
C16_ValueEqualityLaw ==
    unit.fn = "compare" =>
        LET a == unit.a
            b == unit.b
        IN  /\ (a.tag = "Symbol" /\ b.tag = "Symbol") => unit.eq
            /\ (a.tag = "Integer" /\ b.tag = "Integer") => (unit.eq <=> a.x = b.x)
            /\ a.tag # b.tag => (~unit.eq /\ unit.partial_cmp = "None")
            /\ a.tag = b.tag => (unit.partial_cmp = "Equal" <=> unit.eq)

\* C16 witness: two different Integers have been compared: unequal, and
\* ordered.
C16_Witness ==
    /\ unit.fn = "compare"
    /\ unit.a.tag = "Integer" /\ unit.b.tag = "Integer" /\ unit.a.x < unit.b.x
    /\ ~unit.eq
    /\ unit.partial_cmp = "Less"

\* C17: Contain(name).check is true exactly when the fact is present, with
\* any value; NotContain(name).check is true exactly when it is absent; so
\* exactly one of the two holds.
C17_ContainAndNotContainComplement ==
    unit.fn = "check_presence" =>
        /\ unit.contain <=> StateSetHas(unit.state_set, unit.name)
        /\ unit.not_contain <=> ~StateSetHas(unit.state_set, unit.name)
        /\ unit.contain # unit.not_contain

\* C17 witness: the two checks have run on a state set that holds the fact
\* with an Integer value: Contain holds and NotContain does not.
C17_Witness ==
    /\ unit.fn = "check_presence"
    /\ StateSetHas(unit.state_set, unit.name)
    /\ unit.state_set[unit.name].tag = "Integer"
    /\ unit.contain /\ ~unit.not_contain

-----------------------------------------------------------------------------
(* Claims about the calls of solve and the protected goals *)

\* A call of solve is at its first step.
AtStartOfSolve ==
    /\ phase = "running"
    /\ Len(frames) = 1
    /\ Top.fn = "solve_all"
    /\ Top.pc = "enter"

\* C18: solve is a pure function of the solver's configuration: no step of
\* a call changes the operations, the goals or the initial state; every call
\* starts with an empty goal stack and an empty index of protected goals; and
\* a call returns what the call before it on the same solver returned.
C18_SolveIsPure ==
    /\ [][operations' = operations /\ goals' = goals /\ states' = states]_vars
    /\ [](AtStartOfSolve => (goal_stack = <<>> /\ protected_goals = EmptyConditionSet))
    /\ []((Done /\ previous # <<>>) => solve_result(ret) = previous[Len(previous)])

\* C18 witness: the second call has returned a plan, with protected goals
\* left behind in its index as in the first call's.
C18_Witness ==
    /\ Done
    /\ previous # <<>>
    /\ ret.some
    /\ Plan # <<>>
    /\ protected_goals # EmptyConditionSet

\* The goals the solve_all call of frame f has inserted into protected_goals
\* so far: those that held at its entry, then each goal it has achieved.
InsertedBy(f) ==
    IF f.pc = "enter" THEN <<>>
    ELSE SelectSeq(f.goals, LAMBDA g : check(g, f.current_states))
            \o SubSeq(f.unachieved_goals, 1, f.i - 1)

\* The goal is in the index under its fact name.
IsProtected(g) ==
    /\ state_name_of(g) \in DOMAIN protected_goals
    /\ Occurs(protected_goals[state_name_of(g)], g)

\* solve_one is about to select the candidates for its goal.
AtCandidateSelection ==
    /\ Running("solve_one", "enter")
    /\ ~check(Top.goal, Top.current_states)
    /\ ~on_goal_stack(goal_stack, Top.goal)

\* C19: at every candidate selection, every goal that a solve_all call still
\* running has inserted into the index of protected goals is in the index
\* under its fact name, also after a nested solve_all with the same
\* condition among its goals has succeeded and removed its protections.
C19_ProtectionLastsAsLongAsItsCall ==
    AtCandidateSelection =>
        \A k \in 1..Len(frames) :
            frames[k].fn = "solve_all" =>
                \A j \in 1..Len(InsertedBy(frames[k])) :
                    IsProtected(InsertedBy(frames[k])[j])

\* solve_one is about to try a candidate after the one before it has failed.
AtNextCandidate ==
    /\ Running("solve_one", "loop")
    /\ 1 < Top.i
    /\ Top.i <= Len(Top.valid_operations)

\* C20: when apply_operation has failed for a candidate of solve_one, the
\* next candidate is tried with the working state, the goal stack and the
\* index of protected goals as they were when the failed candidate was tried.
C20_FailedCandidateLeavesNoTrace ==
    AtNextCandidate =>
        TriedWith(Top.current_states, goal_stack, protected_goals) = Top.before

-----------------------------------------------------------------------------
(* Claims about the goal stack and the selection of operations *)

\* No condition is on the goal stack twice.
NoGoalTwice ==
    \A i, j \in 1..Len(goal_stack) : goal_stack[i] = goal_stack[j] => i = j

\* The step is a return of the solve_one call on top of the call stack.
SolveOneReturns ==
    /\ phase = "running"
    /\ frames # <<>>
    /\ Top.fn = "solve_one"
    /\ Len(frames') = Len(frames) - 1

\* The goal stack as it was when the running solve_one call was entered.
StackAtEntry == IF Top.pc = "enter" THEN goal_stack ELSE Top.entry_stack

\* C21: the goal stack never holds the same condition twice; every return
\* of solve_one, with success or failure, leaves the stack as it was when the
\* call was entered; and the stack is empty when solve has returned.
C21_GoalStackDiscipline ==
    /\ [](NoGoalTwice /\ (Done => goal_stack = <<>>))
    /\ [][SolveOneReturns => goal_stack' = StackAtEntry]_vars

\* C21 witness: with three goals on the stack and the cycle guard having
\* fired below it, solve_one has run out of candidates and is about to pop
\* its goal and return the failure.
C21_Witness ==
    /\ Running("solve_one", "loop")
    /\ Top.i > Len(Top.valid_operations)
    /\ Len(goal_stack) >= 3
    /\ cut

\* The operation has an effect of the kind the goal asks for on the goal's
\* fact: an add-effect for Contain, a remove-effect for NotContain, a
\* modify-effect for Compare.
TargetsGoal(op, goal) ==
    LET fact == state_name_of(goal) IN
    \/ goal.kind = "Contain" /\ AddsTo(op, fact) # <<>>
    \/ goal.kind = "NotContain" /\ RemovesFact(op, fact)
    \/ goal.kind = "Compare" /\ ModifiesOf(op, fact) # <<>>

\* The places in the registry of the operations the call must return.
SelectedPlaces ==
    { i \in 1..Len(operations) :
        /\ TargetsGoal(operations[i], unit.goal)
        /\ ~has_affect(operations[i], unit.current_states, unit.protected_goals) }

\* The k-th smallest of a set of places.
Place(S, k) == CHOOSE i \in S : Cardinality({j \in S : j <= i}) = k

\* The operations with their prerequisites taken away.
WithoutPrerequisites(ops) ==
    [i \in 1..Len(ops) |-> [ops[i] EXCEPT !.prerequisites = <<>>]]

\* C22: find_valid_operations returns exactly the registered operations that
\* have an effect of the goal's kind on the goal's fact and that has_affect
\* does not flag against the current state and the protected goals, in
\* registration order; the prerequisites play no role: the registry without
\* them gives the same selection.
C22_ExactlyTheValidOperations ==
    unit.fn = "find_valid_operations" =>
        /\ Len(unit.result) = Cardinality(SelectedPlaces)
        /\ \A k \in 1..Len(unit.result) :
              unit.result[k] = operations[Place(SelectedPlaces, k)]
        /\ find_valid_operations(WithoutPrerequisites(operations), unit.goal,
                                 unit.current_states, unit.protected_goals)
              = WithoutPrerequisites(unit.result)

\* C22 witness: a call has returned two operations, the first with a
\* prerequisite that does not hold in the current state, has left out an
\* operation with the right effect that has_affect flags, and one without
\* the right effect.
C22_Witness ==
    /\ unit.fn = "find_valid_operations"
    /\ Len(unit.result) >= 2
    /\ ~has_reached(unit.current_states, unit.result[1].prerequisites)
    /\ \E i \in 1..Len(operations) :
          /\ TargetsGoal(operations[i], unit.goal)
          /\ has_affect(operations[i], unit.current_states, unit.protected_goals)
    /\ \E i \in 1..Len(operations) : ~TargetsGoal(operations[i], unit.goal)

\* What apply_operation has returned for the candidates of the running
\* solve_one call, in the order they were tried.
Outcomes == IF Top.pc = "wait" THEN Append(Top.outcomes, ret) ELSE Top.outcomes

\* The step is a return of solve_one after the selection of its candidates.
SolveOneReturnsFromLoop == SolveOneReturns /\ Top.pc \in {"loop", "wait"}

\* The step is the call of apply_operation on a candidate of solve_one.
SolveOneTriesCandidate ==
    /\ Running("solve_one", "loop")
    /\ Len(frames') = Len(frames) + 1

\* C23: solve_one tries its candidates in registration order; its result is
\* what apply_operation returned for the earliest candidate for which it
\* succeeded, no candidate being tried after that one; and it fails only
\* when apply_operation has failed for every candidate.
C23_FirstSuccessInRegistrationOrder ==
    [][/\ SolveOneTriesCandidate =>
            /\ Len(Outcomes) < Len(Top.valid_operations)
            /\ frames'[Len(frames')] =
                  ApplyOperationFrame(Top.valid_operations[Len(Outcomes) + 1],
                                      Top.current_states)
       /\ SolveOneReturnsFromLoop =>
            IF \E j \in 1..Len(Outcomes) : Outcomes[j].some
            THEN /\ Outcomes[Len(Outcomes)].some
                 /\ \A j \in 1..(Len(Outcomes) - 1) : ~Outcomes[j].some
                 /\ ret' = Outcomes[Len(Outcomes)]
            ELSE /\ Len(Outcomes) = Len(Top.valid_operations)
                 /\ ret' = None]_vars

\* C23 witness: apply_operation has succeeded for the second candidate of a
\* solve_one call, after failing for the first.
C23_Witness ==
    /\ Running("solve_one", "wait")
    /\ ret.some
    /\ Top.i = 2
    /\ Len(Top.outcomes) = 1
    /\ ~Top.outcomes[1].some

\* Every condition of the index is stored under the name of its target fact.
StoredUnderTarget(prot) ==
    \A n \in DOMAIN prot : \A j \in 1..Len(prot[n]) : state_name_of(prot[n][j]) = n

\* Every condition of the index checks true in the state set.
AllProtectedHold(prot, ss) ==
    \A n \in DOMAIN prot : \A j \in 1..Len(prot[n]) : check(prot[n][j], ss)

\* C24: when every protected condition is stored under its target fact's
\* name and checks true in a state, and has_affect does not flag the
\* operation for that state, every protected condition checks true in the
\* state the operation's application gives.
C24_HasAffectSoundForOneApplication ==
    (/\ unit.fn = "has_affect_then_apply"
     /\ StoredUnderTarget(unit.protected_goals)
     /\ AllProtectedHold(unit.protected_goals, unit.state_set)
     /\ ~unit.flagged)
    => AllProtectedHold(unit.protected_goals, unit.result)

RECURSIVE PlanExists(_, _)
\* Some sequence of at most n registered operations, each applied in a state
\* in which its prerequisites check true, leads from ss to a state in which
\* all goals check true.
PlanExists(ss, n) ==
    \/ has_reached(ss, goals)
    \/ /\ n > 0
       /\ \E i \in 1..Len(operations) :
             /\ has_reached(ss, operations[i].prerequisites)
             /\ PlanExists(apply(operations[i], ss), n - 1)

\* C25: whenever solve returns failure, no sequence of registered
\* operations, each applied in a state that satisfies its prerequisites,
\* leads from the initial state to a state that satisfies all goals (here:
\* no such sequence of at most MaxPlan operations).
C25_FailureMeansNoPlan == Failed => ~PlanExists(states, MaxPlan)

====
